---------------------------- MODULE Spec2Model ----------------------------
(***************************************************************************)
(* Fit-Check: the undoable layered-outfit editor of src/App.tsx.           *)
(*                                                                         *)
(* The React component App keeps the editor snapshot in useUndoableState   *)
(* (history, currentIndex) and a handful of flags.  Every handler is a     *)
(* closure over the values of the render in which it was created: an      *)
(* asynchronous handler that resumes after an await still sees the         *)
(* history, currentIndex and state of that render.  A closure is modelled  *)
(* as the record [history, currentIndex] of the render it was taken from;  *)
(* a synchronous handler runs with the closure of the current render.      *)
(***************************************************************************)
EXTENDS Integers, Sequences, FiniteSets, TLC

\* ------------------------------------------------------------------ bounds
MaxLayers == 3      \* layers of one snapshot (base layer included)
MaxHist == 4        \* snapshots of the version history, long runs
ShortHist == 3      \* snapshots of the version history, wide runs
MaxPending == 1     \* asynchronous tasks in flight at once
ArchiveHist == 2    \* snapshots of the version history, runs with the archive
RaceHist == 2       \* snapshots of the version history, runs with two tasks
RacePending == 2    \* asynchronous tasks in flight at once, runs with two tasks
MaxLooks == 2       \* saved looks created in one run

\* --------------------------------------------------------------- constants
\* two of the six pose labels of the code, abbreviated
POSE_INSTRUCTIONS == <<"front", "side">>
Poses == {POSE_INSTRUCTIONS[i] : i \in 1..Len(POSE_INSTRUCTIONS)}
defaultWardrobe == {"gray-sweatshirt", "white-tee"}
\* the id of an uploaded garment
CustomId == "custom"
ModelImages == {"M"}
GatewayImages == {"X", "Y"}
Null == "null"
\* "undefined" where the code would read a layer or a snapshot that is not there
NoLayer == [garment |-> "undefined", poseImages |-> <<>>]
NoState == [modelImageUrl |-> "undefined", outfitHistory |-> <<>>,
            currentOutfitIndex |-> 0, currentPose |-> "undefined"]

VARIABLES
    history,          \* useUndoableState: the snapshots
    currentIndex,     \* useUndoableState: the cursor (0-based)
    isLoading,        \* App: busy flag of the engine operations
    isStyling,        \* App: busy flag of the stylist
    isShooting,       \* App: busy flag of the photoshoot
    error,            \* App: TRUE when an error message is shown
    repatternTarget,  \* App: <<layerIndex>> chosen for repattern, or <<>> (null)
    savedLooks,       \* App: the saved-look archive (a sequence)
    looksMade,        \* number of looks created so far (fresh ids)
    storedLooks,      \* localStorage: the item stored under 'savedLooks'
    app,              \* "mounting" until the mount effects ran, then "running";
                      \* "crashed" when a render threw
    pending,          \* tasks suspended at an await, each with its closure
    last,             \* the last handler that ran, and what it started from
    lim               \* the bounds of the run:
                      \* [hist, pending, looks, images, upload, extras]

vars == <<history, currentIndex, isLoading, isStyling, isShooting, error,
          repatternTarget, savedLooks, looksMade, storedLooks, app, pending, last,
          lim>>

\* ----------------------------------------------------------- localStorage
\* The item stored under 'savedLooks': absent, or a text.  A text is the
\* JSON of a list of looks (what JSON.stringify(updatedLooks) writes), JSON of
\* some other value, or no JSON at all.
Absent == [kind |-> "absent", looks |-> <<>>]

NotJson == [kind |-> "notJson", looks |-> <<>>]

JsonOfOther == [kind |-> "jsonOfOther", looks |-> <<>>]

\* JSON.stringify(looks)
Stringify(looks) == [kind |-> "jsonOfList", looks |-> looks]

\* what a browser profile can hold under 'savedLooks' when the page is opened
StoredAtStart == {Absent, NotJson, JsonOfOther, Stringify(<<>>)}

\* ------------------------------------------------------ pose-image records
\* A Record<string,string> keeps its keys in insertion order: a sequence of
\* [pose, img] entries with distinct poses.
PoseKeys(poseImages) == {poseImages[i].pose : i \in 1..Len(poseImages)}

HasPose(poseImages, p) == p \in PoseKeys(poseImages)

PoseGet(poseImages, p) ==
    LET i == CHOOSE j \in 1..Len(poseImages) : poseImages[j].pose = p
    IN poseImages[i].img

\* {...poseImages, [p]: img}: an existing key keeps its place
PosePut(poseImages, p, img) ==
    IF HasPose(poseImages, p)
    THEN [i \in 1..Len(poseImages) |->
            IF poseImages[i].pose = p THEN [pose |-> p, img |-> img]
            ELSE poseImages[i]]
    ELSE Append(poseImages, [pose |-> p, img |-> img])

\* Object.keys(poseImages)[0] and Object.values(poseImages)[0]
FirstKey(poseImages) == IF Len(poseImages) = 0 THEN Null ELSE poseImages[1].pose

FirstValue(poseImages) == IF Len(poseImages) = 0 THEN Null ELSE poseImages[1].img

\* ---------------------------------------------------------------- snapshots
initialEditorState ==
    [modelImageUrl |-> Null, outfitHistory |-> <<>>,
     currentOutfitIndex |-> 0, currentPose |-> POSE_INSTRUCTIONS[1]]

\* faulty variant of FinalizedState: the model image without its base layer
FinalizedState_noBaseLayer(url) ==
    [initialEditorState EXCEPT !.modelImageUrl = url]

FinalizedState(url) ==
    [initialEditorState EXCEPT
        !.modelImageUrl = url,
        !.outfitHistory = <<[garment |-> Null,
                             poseImages |-> <<[pose |-> POSE_INSTRUCTIONS[1],
                                               img |-> url]>>]>>]

\* outfitHistory[i] of the code (0-based)
LayerAt(st, i) ==
    IF i >= 0 /\ i < Len(st.outfitHistory) THEN st.outfitHistory[i + 1] ELSE NoLayer

\* faulty variant of displayImageUrl: currentPose is not looked up
displayImageUrl_firstOnly(st) ==
    IF Len(st.outfitHistory) = 0 THEN st.modelImageUrl
    ELSE LET currentLayer == LayerAt(st, st.currentOutfitIndex)
         IN IF currentLayer = NoLayer THEN st.modelImageUrl
            ELSE FirstValue(currentLayer.poseImages)

displayImageUrl(st) ==
    IF Len(st.outfitHistory) = 0 THEN st.modelImageUrl
    ELSE LET currentLayer == LayerAt(st, st.currentOutfitIndex)
         IN IF currentLayer = NoLayer THEN st.modelImageUrl
            ELSE IF HasPose(currentLayer.poseImages, st.currentPose)
                 THEN PoseGet(currentLayer.poseImages, st.currentPose)
                 ELSE FirstValue(currentLayer.poseImages)

Min(a, b) == IF a < b THEN a ELSE b

activeOutfitLayers(st) ==
    SubSeq(st.outfitHistory, 1, Min(st.currentOutfitIndex + 1, Len(st.outfitHistory)))

activeGarmentIds(st) ==
    {activeOutfitLayers(st)[i].garment : i \in 1..Len(activeOutfitLayers(st))}
        \ {Null}

\* ------------------------------------------------------------ the closures
\* isLoading || isStyling || isShooting
isBusy == isLoading \/ isStyling \/ isShooting

Render == [history |-> history, currentIndex |-> currentIndex, isBusy |-> isBusy]

StateOf(cl) == cl.history[cl.currentIndex + 1]

state == StateOf(Render)

canUndo == currentIndex > 0

canRedo == currentIndex < Len(history) - 1

\* the editor view (Canvas, OutfitStack, WardrobePanel, SavedLooksPanel) is
\* rendered instead of the start screen
AppViewShown == state.modelImageUrl # Null

\* room left in the bounded history for one more snapshot after the cursor
CanGrow(cl) == cl.currentIndex + 2 <= lim.hist

\* room left for one more suspended task
CanStart == Len(pending) < lim.pending

Tasks == {pending[i] : i \in 1..Len(pending)}

RemoveAt(s, i) == SubSeq(s, 1, i - 1) \o SubSeq(s, i + 1, Len(s))

GatewayKinds == {"enhance", "tryOn", "pose", "background", "repattern"}

\* the Gateway calls in flight
InFlight == {i \in 1..Len(pending) : pending[i].kind \in GatewayKinds}

\* ------------------------------------------------------- useUndoableState
\* faulty variant of setState: the cursor is set to newHistory.length
setState_cursorPastEnd(cl, resolvedState) ==
    IF resolvedState = StateOf(cl)
    THEN UNCHANGED <<history, currentIndex>>
    ELSE LET newHistory == Append(SubSeq(cl.history, 1, cl.currentIndex + 1),
                                  resolvedState)
         IN /\ history' = newHistory
            /\ currentIndex' = Len(newHistory)

\* faulty variant of setState: history.slice(0, currentIndex), the snapshot the
\* handler started from is dropped
setState_dropsCurrent(cl, resolvedState) ==
    IF resolvedState = StateOf(cl)
    THEN UNCHANGED <<history, currentIndex>>
    ELSE LET newHistory == Append(SubSeq(cl.history, 1, cl.currentIndex),
                                  resolvedState)
         IN /\ history' = newHistory
            /\ currentIndex' = Len(newHistory) - 1

\* setState of the render cl, called with the resolved value
setState(cl, resolvedState) ==
    IF resolvedState = StateOf(cl)
    THEN UNCHANGED <<history, currentIndex>>
    ELSE LET newHistory == Append(SubSeq(cl.history, 1, cl.currentIndex + 1),
                                  resolvedState)
         IN /\ history' = newHistory
            /\ currentIndex' = Len(newHistory) - 1

\* faulty variant of resetState: the new snapshot is appended to the old ones
resetState_keepsHistory(newState) ==
    /\ history' = Append(history, newState)
    /\ currentIndex' = Len(history)

resetState(newState) ==
    /\ history' = <<newState>>
    /\ currentIndex' = 0

\* the record of a handler that read or installed a snapshot: the head it
\* found and the snapshot its setState closure held
Note(op, arg, basis) ==
    /\ last' = [op |-> op, arg |-> arg, prevHead |-> state, basis |-> basis]
    /\ UNCHANGED lim

\* any other handler
Other ==
    /\ last' = [op |-> "other", arg |-> Null, prevHead |-> NoState, basis |-> NoState]
    /\ UNCHANGED lim

undo ==
    /\ AppViewShown
    /\ currentIndex > 0
    /\ currentIndex' = currentIndex - 1
    /\ Note("undo", Null, NoState)
    /\ UNCHANGED <<history, isLoading, error, repatternTarget, savedLooks,
                   looksMade, pending>>

redo ==
    /\ AppViewShown
    /\ currentIndex < Len(history) - 1
    /\ currentIndex' = currentIndex + 1
    /\ Note("redo", Null, NoState)
    /\ UNCHANGED <<history, isLoading, error, repatternTarget, savedLooks,
                   looksMade, pending>>

\* ------------------------------------------------------------------- App
handleModelFinalized(url) ==
    /\ state.modelImageUrl = Null
    /\ resetState(FinalizedState(url))
    /\ Note("handleModelFinalized", url, NoState)
    /\ UNCHANGED <<isLoading, error, repatternTarget, savedLooks, looksMade,
                   pending>>

handleStartOver ==
    /\ state.modelImageUrl # Null
    /\ resetState(initialEditorState)
    /\ isLoading' = FALSE
    /\ error' = FALSE
    /\ isStyling' = FALSE
    /\ Note("handleStartOver", Null, NoState)
    /\ UNCHANGED <<isShooting, repatternTarget, savedLooks, looksMade, pending>>

\* faulty variant of handleGarmentClick: a garment that is worn can be clicked
handleGarmentClick_noActiveCheck(item) ==
    /\ AppViewShown
    /\ ~isBusy
    /\ CanStart
    /\ pending' = Append(pending, [kind |-> "urlToFile", arg |-> item, cl |-> Render])
    /\ Other
    /\ UNCHANGED <<history, currentIndex, isLoading, error, repatternTarget,
                   savedLooks, looksMade>>

\* WardrobePanel.handleGarmentClick: the click is checked against the props of
\* the current render, then the handler awaits urlToFile
handleGarmentClick(item) ==
    /\ AppViewShown
    /\ ~(isBusy \/ item \in activeGarmentIds(state))
    /\ CanStart
    /\ pending' = Append(pending, [kind |-> "urlToFile", arg |-> item, cl |-> Render])
    /\ Other
    /\ UNCHANGED <<history, currentIndex, isLoading, error, repatternTarget,
                   savedLooks, looksMade>>

\* urlToFile rejected: the panel shows its own error, nothing is selected
urlToFileFailed(i) ==
    /\ i \in 1..Len(pending)
    /\ pending[i].kind = "urlToFile"
    /\ pending' = RemoveAt(pending, i)
    /\ Other
    /\ UNCHANGED <<history, currentIndex, isLoading, error, repatternTarget,
                   savedLooks, looksMade>>

\* the redo shortcut of handleGarmentSelect: the layer after the active one
\* already holds this garment
IsRedoShortcut(st, garmentId) ==
    LET nextLayer == LayerAt(st, st.currentOutfitIndex + 1)
    IN nextLayer # NoLayer /\ nextLayer.garment = garmentId

\* faulty variant of handleGarmentSelect: the layer after the active one is
\* not looked at, every selection goes to the Gateway
handleGarmentSelect_noShortcut(cl, garmentId, i) ==
    /\ ~(displayImageUrl(StateOf(cl)) = Null \/ cl.isBusy)
    /\ error' = FALSE
    /\ isLoading' = TRUE
    /\ pending' = [pending EXCEPT ![i] =
                      [kind |-> "tryOn", arg |-> garmentId, cl |-> cl]]
    /\ Other
    /\ UNCHANGED <<history, currentIndex>>

\* handleGarmentSelect of the render cl, up to its first await; i is the place
\* of the calling task in pending
handleGarmentSelect(cl, garmentId, i) ==
    /\ ~(displayImageUrl(StateOf(cl)) = Null \/ cl.isBusy)
    /\ IF IsRedoShortcut(StateOf(cl), garmentId)
       THEN /\ setState(cl, [StateOf(cl) EXCEPT
                               !.currentOutfitIndex = StateOf(cl).currentOutfitIndex + 1])
            /\ pending' = RemoveAt(pending, i)
            /\ Note("handleGarmentSelect", garmentId, StateOf(cl))
            /\ UNCHANGED <<isLoading, error>>
       ELSE /\ error' = FALSE
            /\ isLoading' = TRUE
            /\ pending' = [pending EXCEPT ![i] =
                              [kind |-> "tryOn", arg |-> garmentId, cl |-> cl]]
            /\ Other
            /\ UNCHANGED <<history, currentIndex>>

\* urlToFile resolved: handleGarmentClick goes on to call onGarmentSelect, the
\* handleGarmentSelect of the render the click was made in
urlToFileDone(i) ==
    /\ i \in 1..Len(pending)
    /\ pending[i].kind = "urlToFile"
    /\ StateOf(pending[i].cl).currentOutfitIndex + 2 <= MaxLayers
    /\ CanGrow(pending[i].cl)
    /\ handleGarmentSelect(pending[i].cl, pending[i].arg, i)
    /\ UNCHANGED <<repatternTarget, savedLooks, looksMade>>

\* the garments of the layers of a snapshot
GarmentsOf(st) == {st.outfitHistory[k].garment : k \in 1..Len(st.outfitHistory)}

\* `custom-${Date.now()}`: an id no snapshot, closure or saved look holds
FreshId(id) ==
    /\ \A k \in 1..Len(history) : id \notin GarmentsOf(history[k])
    /\ \A k \in 1..Len(savedLooks) : id \notin GarmentsOf(savedLooks[k].editorState)
    /\ \A t \in Tasks : /\ t.arg # id
                         /\ \A k \in 1..Len(t.cl.history) :
                               id \notin GarmentsOf(t.cl.history[k])

\* WardrobePanel.handleFileChange: an uploaded image goes to onGarmentSelect
\* with a fresh id, and handleGarmentSelect runs up to its first await:
\* cleanupGarmentImage when enhance is set, else generateVirtualTryOnImage
handleFileChange(enhance) ==
    /\ AppViewShown
    /\ ~isBusy
    /\ lim.upload
    /\ FreshId(CustomId)
    /\ displayImageUrl(state) # Null
    /\ state.currentOutfitIndex + 2 <= MaxLayers
    /\ CanGrow(Render)
    /\ CanStart
    /\ error' = FALSE
    /\ isLoading' = TRUE
    /\ pending' = Append(pending, [kind |-> IF enhance THEN "enhance" ELSE "tryOn",
                                   arg |-> CustomId, cl |-> Render])
    /\ Other
    /\ UNCHANGED <<history, currentIndex, repatternTarget, savedLooks, looksMade>>

\* cleanupGarmentImage resolved: handleGarmentSelect goes on to its second
\* await, generateVirtualTryOnImage
enhanceResolved(i) ==
    /\ i \in InFlight
    /\ pending[i].kind = "enhance"
    /\ pending' = [pending EXCEPT ![i].kind = "tryOn"]
    /\ Other
    /\ UNCHANGED <<history, currentIndex, isLoading, error, repatternTarget,
                   savedLooks, looksMade>>

\* faulty variant of TryOnUpdate: the new layer is appended but not made the
\* active one
TryOnUpdate_keepsIndex(prev, garmentId, currentPose, newImageUrl) ==
    LET newLayer == [garment |-> garmentId,
                     poseImages |-> <<[pose |-> currentPose, img |-> newImageUrl]>>]
        newHistory == SubSeq(prev.outfitHistory, 1,
                             Min(prev.currentOutfitIndex + 1, Len(prev.outfitHistory)))
    IN [prev EXCEPT !.outfitHistory = Append(newHistory, newLayer)]

\* the updater handleGarmentSelect passes to setEditorState
TryOnUpdate(prev, garmentId, currentPose, newImageUrl) ==
    LET newLayer == [garment |-> garmentId,
                     poseImages |-> <<[pose |-> currentPose, img |-> newImageUrl]>>]
        newHistory == SubSeq(prev.outfitHistory, 1,
                             Min(prev.currentOutfitIndex + 1, Len(prev.outfitHistory)))
    IN [prev EXCEPT !.outfitHistory = Append(newHistory, newLayer),
                    !.currentOutfitIndex = prev.currentOutfitIndex + 1]

\* faulty variant of PoseUpdate: the new image replaces the pose map
PoseUpdate_replacesMap(prev, newPose, newImageUrl) ==
    LET k == prev.currentOutfitIndex + 1
    IN [prev EXCEPT !.outfitHistory[k].poseImages =
                        <<[pose |-> newPose, img |-> newImageUrl]>>,
                    !.currentPose = newPose]

\* the updater handlePoseSelect passes to setEditorState
PoseUpdate(prev, newPose, newImageUrl) ==
    LET k == prev.currentOutfitIndex + 1
    IN [prev EXCEPT !.outfitHistory[k].poseImages =
                        PosePut(prev.outfitHistory[k].poseImages, newPose, newImageUrl),
                    !.currentPose = newPose]

\* the updater handleBackgroundChange passes to setEditorState; handleEventStylist
\* passes the same one
BackgroundUpdate(prev, newImageUrl) ==
    LET k == prev.currentOutfitIndex + 1
    IN [prev EXCEPT !.outfitHistory[k].poseImages =
                        PosePut(prev.outfitHistory[k].poseImages, prev.currentPose,
                                newImageUrl)]

\* faulty variant of RepatternUpdate: the image goes under the first pose label
RepatternUpdate_underFirstPose(prev, newImageUrl) ==
    LET k == prev.currentOutfitIndex + 1
    IN [prev EXCEPT !.outfitHistory[k].poseImages =
                        <<[pose |-> POSE_INSTRUCTIONS[1], img |-> newImageUrl]>>]

\* the updater handleRepattern passes to setEditorState
RepatternUpdate(prev, newImageUrl) ==
    LET k == prev.currentOutfitIndex + 1
    IN [prev EXCEPT !.outfitHistory[k].poseImages =
                        <<[pose |-> prev.currentPose, img |-> newImageUrl]>>]

\* the updater the resumed handler of task t passes to setEditorState, applied
\* to prev; the pose of a new layer is the currentPose of the handler's render
UpdaterOf(t, prev, newImageUrl) ==
    CASE t.kind = "tryOn" ->
             TryOnUpdate(prev, t.arg, StateOf(t.cl).currentPose, newImageUrl)
      [] t.kind = "pose" -> PoseUpdate(prev, t.arg, newImageUrl)
      [] t.kind = "background" -> BackgroundUpdate(prev, newImageUrl)
      [] t.kind = "repattern" -> RepatternUpdate(prev, newImageUrl)

\* what the resumed handler of task t installs when the Gateway returns:
\* setState applies the updater to the state of the handler's render
Resolved(t, newImageUrl) == UpdaterOf(t, StateOf(t.cl), newImageUrl)

\* the Gateway call of task i resolved: the handler resumes in its own render's
\* closure, installs the update and runs its finally block
gatewayResolved(i, newImageUrl) ==
    /\ i \in InFlight
    /\ pending[i].kind # "enhance"
    /\ setState(pending[i].cl, Resolved(pending[i], newImageUrl))
    /\ isLoading' = FALSE
    /\ pending' = RemoveAt(pending, i)
    /\ Note(pending[i].kind, pending[i].arg, StateOf(pending[i].cl))
    /\ UNCHANGED <<error, repatternTarget, savedLooks, looksMade>>

\* faulty variant of gatewayRejected: no finally block, the busy flag stays
gatewayRejected_noFinally(i) ==
    /\ i \in InFlight
    /\ error' = TRUE
    /\ pending' = RemoveAt(pending, i)
    /\ Note("rejected", pending[i].kind, StateOf(pending[i].cl))
    /\ UNCHANGED <<history, currentIndex, isLoading, repatternTarget, savedLooks,
                   looksMade>>

\* the Gateway call of task i rejected: catch, then finally
gatewayRejected(i) ==
    /\ i \in InFlight
    /\ error' = TRUE
    /\ isLoading' = FALSE
    /\ pending' = RemoveAt(pending, i)
    /\ Note("rejected", pending[i].kind, StateOf(pending[i].cl))
    /\ UNCHANGED <<history, currentIndex, repatternTarget, savedLooks, looksMade>>

\* faulty variant of handlePoseSelect: the cached image is not looked up
handlePoseSelect_noCache(newPose) ==
    /\ AppViewShown
    /\ ~(isBusy \/ Len(state.outfitHistory) = 0 \/ newPose = state.currentPose)
    /\ LayerAt(state, state.currentOutfitIndex) # NoLayer
    /\ CanGrow(Render)
    /\ CanStart
    /\ error' = FALSE
    /\ isLoading' = TRUE
    /\ pending' = Append(pending, [kind |-> "pose", arg |-> newPose, cl |-> Render])
    /\ Other
    /\ UNCHANGED <<history, currentIndex, repatternTarget, savedLooks, looksMade>>

handlePoseSelect(newPose) ==
    /\ AppViewShown
    /\ ~(isBusy \/ Len(state.outfitHistory) = 0 \/ newPose = state.currentPose)
    /\ LET currentLayer == LayerAt(state, state.currentOutfitIndex)
       IN /\ currentLayer # NoLayer
          /\ CanGrow(Render)
          /\ IF HasPose(currentLayer.poseImages, newPose)
             THEN /\ setState(Render, [state EXCEPT !.currentPose = newPose])
                  /\ Note("handlePoseSelect", newPose, state)
                  /\ UNCHANGED <<isLoading, error, pending>>
             ELSE /\ FirstValue(currentLayer.poseImages) # Null
                  /\ CanStart
                  /\ error' = FALSE
                  /\ isLoading' = TRUE
                  /\ pending' = Append(pending,
                                  [kind |-> "pose", arg |-> newPose, cl |-> Render])
                  /\ Other
                  /\ UNCHANGED <<history, currentIndex>>
    /\ UNCHANGED <<repatternTarget, savedLooks, looksMade>>

\* handleEventStylist has the same guard, busy flag and updater
handleBackgroundChange ==
    /\ AppViewShown
    /\ ~(displayImageUrl(state) = Null \/ isBusy)
    /\ CanGrow(Render)
    /\ CanStart
    /\ error' = FALSE
    /\ isLoading' = TRUE
    /\ pending' = Append(pending, [kind |-> "background", arg |-> Null, cl |-> Render])
    /\ Other
    /\ UNCHANGED <<history, currentIndex, repatternTarget, savedLooks, looksMade>>

\* faulty variant of the handleRemoveLayer updater: currentOutfitIndex is kept
RemoveLayerUpdate_keepsIndex(prev, layerIndex) ==
    [prev EXCEPT !.outfitHistory =
        SubSeq(prev.outfitHistory, 1, Min(layerIndex, Len(prev.outfitHistory)))]

\* faulty variant of the handleRemoveLayer updater: slice(0, layerIndex + 1)
RemoveLayerUpdate_keepsLayer(prev, layerIndex) ==
    [prev EXCEPT !.outfitHistory =
                    SubSeq(prev.outfitHistory, 1,
                           Min(layerIndex + 1, Len(prev.outfitHistory))),
                 !.currentOutfitIndex = layerIndex - 1]

\* faulty variant of RemoveLayerUpdate: the layers stay, only the active
\* index goes below the removed layer
RemoveLayerUpdate_stash(prev, layerIndex) ==
    IF layerIndex - 1 < 0 \/ layerIndex - 1 >= Len(prev.outfitHistory) THEN NoState
    ELSE [prev EXCEPT !.currentOutfitIndex = layerIndex - 1]

\* faulty variant of RemoveLayerUpdate: currentPose is kept as it is
RemoveLayerUpdate_keepsPose(prev, layerIndex) ==
    LET newHistory == SubSeq(prev.outfitHistory, 1, Min(layerIndex, Len(prev.outfitHistory)))
        newIndex == layerIndex - 1
    IN IF ~(newIndex >= 0 /\ newIndex < Len(newHistory)) THEN NoState
       ELSE [prev EXCEPT !.outfitHistory = newHistory,
                         !.currentOutfitIndex = newIndex]

\* the updater handleRemoveLayer passes to setEditorState; NoState when it throws
\* (lastValidLayer undefined)
RemoveLayerUpdate(prev, layerIndex) ==
    LET newHistory == SubSeq(prev.outfitHistory, 1, Min(layerIndex, Len(prev.outfitHistory)))
        newIndex == layerIndex - 1
        lastValidLayer == IF newIndex >= 0 /\ newIndex < Len(newHistory)
                          THEN newHistory[newIndex + 1] ELSE NoLayer
    IN IF lastValidLayer = NoLayer THEN NoState
       ELSE [prev EXCEPT
               !.outfitHistory = newHistory,
               !.currentOutfitIndex = newIndex,
               !.currentPose = IF HasPose(lastValidLayer.poseImages, prev.currentPose)
                               THEN prev.currentPose
                               ELSE FirstKey(lastValidLayer.poseImages)]

handleRemoveLayer(layerIndex) ==
    /\ AppViewShown
    /\ ~isBusy
    /\ RemoveLayerUpdate(state, layerIndex) # NoState
    /\ CanGrow(Render)
    /\ setState(Render, RemoveLayerUpdate(state, layerIndex))
    /\ Note("handleRemoveLayer", layerIndex, state)
    /\ UNCHANGED <<isLoading, error, repatternTarget, savedLooks, looksMade, pending>>

\* OutfitStack: the indices of activeOutfitLayers that show a remove button
RemoveButtons(st) == {index \in 0..(Len(activeOutfitLayers(st)) - 1) : index > 0}

\* OutfitStack: the indices of activeOutfitLayers that show a repattern button
RepatternButtons(st) ==
    {index \in 0..(Len(activeOutfitLayers(st)) - 1) :
        activeOutfitLayers(st)[index + 1].garment # Null}

onRepattern(layerIndex) ==
    /\ AppViewShown
    /\ layerIndex \in RepatternButtons(state)
    /\ repatternTarget' = <<layerIndex>>
    /\ Other
    /\ UNCHANGED <<history, currentIndex, isLoading, error, savedLooks, looksMade,
                   pending>>

\* the pattern dialog is closed
closeRepattern ==
    /\ repatternTarget # <<>>
    /\ repatternTarget' = <<>>
    /\ Other
    /\ UNCHANGED <<history, currentIndex, isLoading, error, savedLooks, looksMade,
                   pending>>

handleRepattern ==
    /\ ~(displayImageUrl(state) = Null \/ repatternTarget = <<>> \/ isBusy)
    /\ CanGrow(Render)
    /\ CanStart
    /\ repatternTarget' = <<>>
    /\ error' = FALSE
    /\ isLoading' = TRUE
    /\ pending' = Append(pending,
                    [kind |-> "repattern", arg |-> Null, cl |-> Render,
                     layerIndex |-> repatternTarget[1]])
    /\ Other
    /\ UNCHANGED <<history, currentIndex, savedLooks, looksMade>>

isLookSaved ==
    \E i \in 1..Len(savedLooks) : savedLooks[i].thumbnailUrl = displayImageUrl(state)

\* faulty variant of handleSaveLook: isLookSaved is not consulted
handleSaveLook_noDedup ==
    /\ AppViewShown
    /\ ~(displayImageUrl(state) = Null \/ state.modelImageUrl = Null)
    /\ looksMade < lim.looks
    /\ savedLooks' = Append(savedLooks,
                        [id |-> looksMade + 1,
                         thumbnailUrl |-> displayImageUrl(state),
                         editorState |-> state])
    /\ storedLooks' = Stringify(savedLooks')
    /\ looksMade' = looksMade + 1
    /\ Other
    /\ UNCHANGED <<history, currentIndex, isLoading, error, repatternTarget, pending>>

handleSaveLook ==
    /\ AppViewShown
    /\ ~(displayImageUrl(state) = Null \/ state.modelImageUrl = Null \/ isLookSaved)
    /\ looksMade < lim.looks
    /\ savedLooks' = Append(savedLooks,
                        [id |-> looksMade + 1,
                         thumbnailUrl |-> displayImageUrl(state),
                         editorState |-> state])
    /\ storedLooks' = Stringify(savedLooks')
    /\ looksMade' = looksMade + 1
    /\ Other
    /\ UNCHANGED <<history, currentIndex, isLoading, error, repatternTarget, pending>>

\* faulty variant of handleLoadLook: the look is installed with setEditorState
handleLoadLook_viaSet(lookId) ==
    /\ AppViewShown
    /\ ~isBusy
    /\ \E i \in 1..Len(savedLooks) :
          /\ savedLooks[i].id = lookId
          /\ setState(Render, savedLooks[i].editorState)
    /\ error' = FALSE
    /\ Note("handleLoadLook", lookId, NoState)
    /\ UNCHANGED <<isLoading, repatternTarget, savedLooks, looksMade, storedLooks,
                   pending>>

handleLoadLook(lookId) ==
    /\ AppViewShown
    /\ ~isBusy
    /\ \E i \in 1..Len(savedLooks) :
          /\ savedLooks[i].id = lookId
          /\ resetState(savedLooks[i].editorState)
    /\ error' = FALSE
    /\ Note("handleLoadLook", lookId, NoState)
    /\ UNCHANGED <<isLoading, repatternTarget, savedLooks, looksMade, storedLooks,
                   pending>>

handleDeleteLook(lookId) ==
    /\ AppViewShown
    /\ \E i \in 1..Len(savedLooks) :
          /\ savedLooks[i].id = lookId
          /\ savedLooks' = RemoveAt(savedLooks, i)
    /\ storedLooks' = Stringify(savedLooks')
    /\ Other
    /\ UNCHANGED <<history, currentIndex, isLoading, error, repatternTarget,
                   looksMade, pending>>

\* ------------------------------- stylist, photoshoot, lookbook, blender
\* the operations that set a busy flag and leave the editor snapshot alone
AssistantKinds == {"stylist", "photoshoot", "lookbook", "blend"}

\* the frame of these handlers
AssistantFrame ==
    /\ Other
    /\ UNCHANGED <<history, currentIndex, repatternTarget, savedLooks, looksMade>>

\* handleGetSuggestion up to its await; only isStyling gates it
handleGetSuggestion ==
    /\ AppViewShown
    /\ lim.extras
    /\ ~(displayImageUrl(state) = Null \/ isStyling)
    /\ CanStart
    /\ error' = FALSE
    /\ isStyling' = TRUE
    /\ pending' = Append(pending, [kind |-> "stylist", arg |-> Null, cl |-> Render])
    /\ AssistantFrame
    /\ UNCHANGED <<isLoading, isShooting>>

handleGeneratePhotoshoot ==
    /\ AppViewShown
    /\ lim.extras
    /\ ~(displayImageUrl(state) = Null \/ isBusy)
    /\ CanStart
    /\ error' = FALSE
    /\ isShooting' = TRUE
    /\ pending' = Append(pending, [kind |-> "photoshoot", arg |-> Null, cl |-> Render])
    /\ AssistantFrame
    /\ UNCHANGED <<isLoading, isStyling>>

handleGetLookbookStory ==
    /\ AppViewShown
    /\ lim.extras
    /\ ~(displayImageUrl(state) = Null \/ isBusy)
    /\ CanStart
    /\ error' = FALSE
    /\ isLoading' = TRUE
    /\ pending' = Append(pending, [kind |-> "lookbook", arg |-> Null, cl |-> Render])
    /\ AssistantFrame
    /\ UNCHANGED <<isStyling, isShooting>>

handleStyleBlend ==
    /\ AppViewShown
    /\ lim.extras
    /\ ~isBusy
    /\ CanStart
    /\ error' = FALSE
    /\ isLoading' = TRUE
    /\ pending' = Append(pending, [kind |-> "blend", arg |-> Null, cl |-> Render])
    /\ AssistantFrame
    /\ UNCHANGED <<isStyling, isShooting>>

\* faulty variant of assistantSettled: a successful blend sets no timer and
\* the busy flag stays
assistantSettled_blendKeepsBusy(i, ok) ==
    /\ i \in 1..Len(pending)
    /\ pending[i].kind \in AssistantKinds
    /\ error' = IF ok THEN error ELSE TRUE
    /\ isStyling' = IF pending[i].kind = "stylist" THEN FALSE ELSE isStyling
    /\ isShooting' = IF pending[i].kind = "photoshoot" THEN FALSE ELSE isShooting
    /\ isLoading' = IF pending[i].kind = "lookbook" \/ (pending[i].kind = "blend" /\ ~ok)
                    THEN FALSE ELSE isLoading
    /\ pending' = RemoveAt(pending, i)
    /\ last' = [op |-> "settled", arg |-> pending[i].kind, prevHead |-> state,
                basis |-> NoState]
    /\ UNCHANGED <<history, currentIndex, repatternTarget, savedLooks, looksMade, lim>>

\* the Gateway call of one of these handlers resolved (ok) or rejected: the
\* catch block sets the error, the finally block clears the flag the handler
\* set.  handleStyleBlend has no finally block: a failure clears isLoading in
\* the catch block, a success leaves it to a timer of two seconds.
assistantSettled(i, ok) ==
    /\ i \in 1..Len(pending)
    /\ pending[i].kind \in AssistantKinds
    /\ error' = IF ok THEN error ELSE TRUE
    /\ isStyling' = IF pending[i].kind = "stylist" THEN FALSE ELSE isStyling
    /\ isShooting' = IF pending[i].kind = "photoshoot" THEN FALSE ELSE isShooting
    /\ isLoading' = IF pending[i].kind = "lookbook" \/ (pending[i].kind = "blend" /\ ~ok)
                    THEN FALSE ELSE isLoading
    /\ pending' = IF pending[i].kind = "blend" /\ ok
                  THEN [pending EXCEPT ![i].kind = "blendTimer"]
                  ELSE RemoveAt(pending, i)
    /\ last' = [op |-> "settled", arg |-> pending[i].kind, prevHead |-> state,
                basis |-> NoState]
    /\ UNCHANGED <<history, currentIndex, repatternTarget, savedLooks, looksMade, lim>>

\* the timer of handleStyleBlend ran
blendTimerFired(i) ==
    /\ i \in 1..Len(pending)
    /\ pending[i].kind = "blendTimer"
    /\ isLoading' = FALSE
    /\ pending' = RemoveAt(pending, i)
    /\ last' = [op |-> "blendTimer", arg |-> Null, prevHead |-> state, basis |-> NoState]
    /\ UNCHANGED <<history, currentIndex, isStyling, isShooting, error, repatternTarget,
                   savedLooks, looksMade, lim>>

Assistants ==
    \/ handleGetSuggestion
    \/ handleGeneratePhotoshoot
    \/ handleGetLookbookStory
    \/ handleStyleBlend
    \/ \E i \in 1..Len(pending), ok \in BOOLEAN : assistantSettled(i, ok)
    \/ \E i \in 1..Len(pending) : blendTimerFired(i)

Start ==
    /\ history = <<initialEditorState>>
    /\ currentIndex = 0
    /\ isLoading = FALSE
    /\ isStyling = FALSE
    /\ isShooting = FALSE
    /\ error = FALSE
    /\ repatternTarget = <<>>
    /\ savedLooks = <<>>
    /\ looksMade = 0
    /\ pending = <<>>
    /\ last = [op |-> "other", arg |-> Null, prevHead |-> NoState, basis |-> NoState]
    /\ app = "mounting"

\* the mount effect of App that reads the archive: JSON.parse of the stored
\* text, removeItem when it throws.  A parsed value that is no list becomes
\* savedLooks as it is, and the next render throws at savedLooks.some.
loadSavedLooks ==
    /\ app = "mounting"
    /\ CASE storedLooks.kind = "absent" ->
               /\ app' = "running"
               /\ UNCHANGED <<savedLooks, storedLooks>>
         [] storedLooks.kind = "jsonOfList" ->
               /\ app' = "running"
               /\ savedLooks' = storedLooks.looks
               /\ UNCHANGED storedLooks
         [] storedLooks.kind = "notJson" ->
               /\ app' = "running"
               /\ storedLooks' = Absent
               /\ UNCHANGED savedLooks
         [] storedLooks.kind = "jsonOfOther" ->
               /\ app' = "crashed"
               /\ UNCHANGED <<savedLooks, storedLooks>>
    /\ Other
    /\ UNCHANGED <<history, currentIndex, isLoading, isStyling, isShooting, error,
                   repatternTarget, looksMade, pending>>

\* the engine and the session store
Engine ==
    \/ \E url \in ModelImages : handleModelFinalized(url)
    \/ undo
    \/ redo
    \/ \E item \in defaultWardrobe : handleGarmentClick(item)
    \/ \E i \in 1..Len(pending) : urlToFileFailed(i)
    \/ \E i \in 1..Len(pending) : urlToFileDone(i)
    \/ \E enhance \in BOOLEAN : handleFileChange(enhance)
    \/ \E i \in 1..Len(pending) : enhanceResolved(i)
    \/ \E i \in 1..Len(pending), img \in lim.images : gatewayResolved(i, img)
    \/ \E i \in 1..Len(pending) : gatewayRejected(i)
    \/ \E newPose \in Poses : handlePoseSelect(newPose)
    \/ handleBackgroundChange
    \/ \E layerIndex \in RemoveButtons(state) : handleRemoveLayer(layerIndex)
    \/ \E layerIndex \in RepatternButtons(state) : onRepattern(layerIndex)
    \/ closeRepattern
    \/ handleRepattern

\* the saved-look archive
Archive ==
    \/ handleSaveLook
    \/ \E i \in 1..Len(savedLooks) : handleLoadLook(savedLooks[i].id)
    \/ \E i \in 1..Len(savedLooks) : handleDeleteLook(savedLooks[i].id)

\* The bounded runs: a long history with one Gateway image, a shorter history
\* with two Gateway images, a short history with the archive in use, one with
\* uploads, and one with two tasks in flight and with the stylist, the
\* photoshoot, the lookbook story and the style blender.
Profiles ==
    {[hist |-> MaxHist, pending |-> MaxPending, looks |-> 0, images |-> {"X"},
      upload |-> FALSE, extras |-> FALSE],
     [hist |-> ShortHist, pending |-> MaxPending, looks |-> 0, images |-> GatewayImages,
      upload |-> FALSE, extras |-> FALSE],
     [hist |-> ArchiveHist, pending |-> MaxPending, looks |-> MaxLooks, images |-> {"X"},
      upload |-> FALSE, extras |-> FALSE],
     [hist |-> ArchiveHist, pending |-> MaxPending, looks |-> 0, images |-> {"X"},
      upload |-> TRUE, extras |-> FALSE],
     [hist |-> RaceHist, pending |-> RacePending, looks |-> 0, images |-> {"X"},
      upload |-> FALSE, extras |-> TRUE]}

\* a stored list is read only in the runs that use the archive
Init ==
    /\ Start
    /\ lim \in Profiles
    /\ storedLooks \in StoredAtStart
    /\ storedLooks.kind = "jsonOfList" => lim.looks > 0

\* user events and settling promises reach the handlers of a mounted App
Running ==
    /\ app = "running"
    /\ \/ Engine /\ UNCHANGED <<isStyling, isShooting, storedLooks, app>>
       \/ handleStartOver /\ UNCHANGED <<storedLooks, app>>
       \/ Assistants /\ UNCHANGED <<storedLooks, app>>
       \/ Archive /\ UNCHANGED <<isStyling, isShooting, app>>

Next == loadSavedLooks \/ Running

Spec == Init /\ [][Next]_vars

\* ------------------------------------------------- displayImageUrl alone
\* The snapshots displayImageUrl is applied to: any snapshot of the data
\* model, whether or not the editor produces it.  A third pose label makes
\* layers that lack currentPose and have two other entries.
DisplayPoses == Poses \cup {"walk"}

PoseEntryInputs == [pose : DisplayPoses, img : ModelImages \cup {"X"}]

PoseImagesInputs ==
    {<<e>> : e \in PoseEntryInputs}
        \cup {p \in PoseEntryInputs \X PoseEntryInputs : p[1].pose # p[2].pose}

BaseLayerInputs == [garment : {Null}, poseImages : PoseImagesInputs]

GarmentLayerInputs == [garment : {CustomId}, poseImages : PoseImagesInputs]

OutfitHistoryInputs ==
    {<<>>} \cup {<<b>> : b \in BaseLayerInputs}
           \cup {<<b, g>> : b \in BaseLayerInputs, g \in GarmentLayerInputs}

SnapshotInputs ==
    {st \in [modelImageUrl : ModelImages \cup {Null},
             outfitHistory : OutfitHistoryInputs,
             currentOutfitIndex : 0..1,
             currentPose : DisplayPoses] :
        /\ st.currentOutfitIndex < Len(st.outfitHistory) \/ st.currentOutfitIndex = 0
        /\ (st.modelImageUrl = Null) <=> (st.outfitHistory = <<>>)}

InitDisplay ==
    /\ currentIndex = 0
    /\ isLoading = FALSE
    /\ isStyling = FALSE
    /\ isShooting = FALSE
    /\ error = FALSE
    /\ repatternTarget = <<>>
    /\ savedLooks = <<>>
    /\ looksMade = 0
    /\ pending = <<>>
    /\ last = [op |-> "other", arg |-> Null, prevHead |-> NoState, basis |-> NoState]
    /\ app = "running"
    /\ storedLooks = Absent
    /\ lim = CHOOSE l \in Profiles : l.hist = MaxHist
    /\ \E st \in SnapshotInputs : history = <<st>>

\* a render of App evaluates the useMemo of displayImageUrl
renderDisplayImage ==
    /\ last.op # "displayImageUrl"
    /\ last' = [op |-> "displayImageUrl", arg |-> displayImageUrl(state),
                prevHead |-> state, basis |-> NoState]
    /\ UNCHANGED <<history, currentIndex, isLoading, isStyling, isShooting, error,
                   repatternTarget, savedLooks, looksMade, storedLooks, app, pending,
                   lim>>

NextDisplay == renderDisplayImage

SpecDisplay == InitDisplay /\ [][NextDisplay]_vars

\* ------------------------------------------- a stored look with a stash
\* The editor never leaves a layer after currentOutfitIndex, so in Spec the
\* redo shortcut of handleGarmentSelect is never taken.  The mount effect
\* takes any stored list of looks, and handleLoadLook installs the editorState
\* of a look as it is: a stored look whose snapshot holds a layer after the
\* active one is the input that takes the program into the shortcut.
StashedGarment == "gray-sweatshirt"

StashSnapshot ==
    [FinalizedState("M") EXCEPT
        !.outfitHistory = Append(@, [garment |-> StashedGarment,
                                     poseImages |-> <<[pose |-> POSE_INSTRUCTIONS[1],
                                                       img |-> "X"]>>])]

StashLook == [id |-> 0, thumbnailUrl |-> "M", editorState |-> StashSnapshot]

\* the runs with uploads: wardrobe items and uploaded garments on the loaded look
InitStash ==
    /\ Start
    /\ lim \in {l \in Profiles : l.upload}
    /\ storedLooks = Stringify(<<StashLook>>)

SpecStash == InitStash /\ [][Next]_vars

\* ----------------------------------------- a stored look of two garments
\* An archive as an earlier session left it: one look saved on a head of two
\* garment layers whose images differ, the second garment active.
OutfitSnapshot ==
    [FinalizedState("M") EXCEPT
        !.outfitHistory =
            @ \o <<[garment |-> "gray-sweatshirt",
                    poseImages |-> <<[pose |-> POSE_INSTRUCTIONS[1], img |-> "X"]>>],
                   [garment |-> "white-tee",
                    poseImages |-> <<[pose |-> POSE_INSTRUCTIONS[1], img |-> "Y"]>>]>>,
        !.currentOutfitIndex = 2]

OutfitLook == [id |-> 0, thumbnailUrl |-> "Y", editorState |-> OutfitSnapshot]

InitReopened ==
    /\ Start
    /\ lim \in {l \in Profiles : l.upload}
    /\ storedLooks = Stringify(<<OutfitLook>>)

SpecReopened == InitReopened /\ [][Next]_vars

\* ------------------------------------------- every Gateway call returns
\* The task at place i of pending settles: its promise resolves or rejects,
\* or its timer runs.
Settles(i) ==
    /\ app = "running"
    /\ \/ /\ \/ \E img \in lim.images : gatewayResolved(i, img)
             \/ gatewayRejected(i)
             \/ enhanceResolved(i)
          /\ UNCHANGED <<isStyling, isShooting, storedLooks, app>>
       \/ /\ \/ \E ok \in BOOLEAN : assistantSettled(i, ok)
             \/ blendTimerFired(i)
          /\ UNCHANGED <<storedLooks, app>>

\* the run with two tasks in flight and all the operations that set a busy flag
InitLive ==
    /\ Start
    /\ lim \in {l \in Profiles : l.extras}
    /\ storedLooks = Absent

\* no promise and no timer stays pending for ever
SpecLive ==
    /\ InitLive
    /\ [][Next]_vars
    /\ \A i \in 1..RacePending : WF_vars(Settles(i))

\* ------------------------------------------------------------------ claims
\* the handlers whose last step called setState
SetOps == {"tryOn", "pose", "background", "repattern", "handleRemoveLayer",
           "handlePoseSelect", "handleGarmentSelect"}

\* the last step was a set that changed the head
ChangedBySet == last.op \in SetOps /\ state # last.prevHead

\* C1: undo after a set that changed the value gives the value that was
\* current immediately before that set, and a redo directly after an undo
\* restores the value that was undone.
C1_UndoRedoInverse ==
    [][/\ (ChangedBySet /\ last'.op = "undo") => state' = last.prevHead
       /\ (last.op = "undo" /\ last'.op = "redo") => state' = last.prevHead]_vars

\* C2: a set whose resolved value is deep-equal to the current head changes
\* neither the snapshots nor the cursor (so canUndo and canRedo stay too).
C2_EqualSetIsNoOp ==
    [][\A i \in 1..Len(pending), img \in lim.images :
          (gatewayResolved(i, img) /\ Resolved(pending[i], img) = state)
              => UNCHANGED <<history, currentIndex>>]_vars

\* C3: the cursor always points into the snapshots:
\* 0 <= currentIndex < Len(history).
C3_CursorInRange == 0 <= currentIndex /\ currentIndex < Len(history)

\* C3 witness: a Gateway call completed in a closure older than the head it
\* replaced, and its set went through.
C3_Witness == last.op \in GatewayKinds /\ last.basis # last.prevHead /\ canUndo

\* C4: a set that changes the value keeps the snapshots up to the cursor,
\* drops those after it and appends the new value, where the cursor moves:
\* afterwards canUndo holds and canRedo does not.
C4_LinearSet ==
    [][(last'.op \in SetOps /\ state' # state) =>
          /\ history' = Append(SubSeq(history, 1, currentIndex + 1), state')
          /\ currentIndex' = Len(history') - 1
          /\ canUndo' /\ ~canRedo']_vars

\* the handlers that call resetState
ResetOps == {"handleModelFinalized", "handleStartOver", "handleLoadLook"}

C6_ResetIsSingleEntry ==
    last.op \in ResetOps =>
        /\ history = <<state>>
        /\ currentIndex = 0
        /\ ~canUndo /\ ~canRedo
        /\ ~ENABLED undo /\ ~ENABLED redo
        /\ last.op = "handleModelFinalized" => state = FinalizedState(last.arg)
        /\ last.op = "handleStartOver" => state = initialEditorState
        /\ last.op = "handleLoadLook" =>
              \E i \in 1..Len(savedLooks) : state = savedLooks[i].editorState

\* C6 witness: a saved look was loaded over a different head.
C6_Witness == last.op = "handleLoadLook" /\ state # last.prevHead

\* the layer invariant of one snapshot
LayerInvariant(st) ==
    Len(st.outfitHistory) > 0 =>
        /\ 0 <= st.currentOutfitIndex
        /\ st.currentOutfitIndex < Len(st.outfitHistory)
        /\ st.outfitHistory[1].garment = Null

\* C7: in every snapshot of the version history and of the archive,
\* currentOutfitIndex is a valid index into a non-empty outfitHistory and the
\* first layer has no garment; handleRemoveLayer(0) changes nothing, and for
\* any index the updater either throws or gives a snapshot with the invariant.
C7_LayerInvariant ==
    /\ \A k \in 1..Len(history) : LayerInvariant(history[k])
    /\ \A k \in 1..Len(savedLooks) : LayerInvariant(savedLooks[k].editorState)
    /\ ~ENABLED handleRemoveLayer(0)
    /\ \A layerIndex \in 0..MaxLayers :
          \/ RemoveLayerUpdate(state, layerIndex) = NoState
          \/ /\ layerIndex > 0
             /\ LayerInvariant(RemoveLayerUpdate(state, layerIndex))

\* C7 witness: the middle layer of a full stack was removed.
C7_Witness ==
    /\ last.op = "handleRemoveLayer"
    /\ last.arg = 1
    /\ Len(last.prevHead.outfitHistory) = MaxLayers
    /\ Len(state.outfitHistory) = 1

\* finalize, apply G, apply H, remove H's layer: the four snapshots
C8_Scenario ==
    /\ last.op = "handleRemoveLayer"
    /\ last.arg = 2
    /\ Len(history) = 4
    /\ currentIndex = 3
    /\ \E url \in ModelImages : history[1] = FinalizedState(url)
    /\ \E G \in defaultWardrobe, x \in GatewayImages :
          history[2] = TryOnUpdate(history[1], G, history[1].currentPose, x)
    /\ \E H \in defaultWardrobe, y \in GatewayImages :
          history[3] = TryOnUpdate(history[2], H, history[2].currentPose, y)
    /\ last.prevHead = history[3]

\* the garment G of the scenario
C8_G == history[2].outfitHistory[2].garment

\* C8 as stated: after G, H and the removal of H's layer, applying G again
\* takes the redo shortcut (a stashed layer with G follows the active one).
C8_RedoShortcutAfterRemove == C8_Scenario => IsRedoShortcut(state, C8_G)

\* C8 amended: after G, H and the removal of H's layer, the head is already
\* deep-equal to the snapshot right after the first application of G; G is
\* worn, no layer is stashed after the active one, the wardrobe ignores a
\* click on G, and handleGarmentSelect would not take the redo shortcut.
C8_RemoveRestoresFirstG ==
    C8_Scenario =>
        /\ state = history[2]
        /\ C8_G \in activeGarmentIds(state)
        /\ Len(state.outfitHistory) = state.currentOutfitIndex + 1
        /\ ~IsRedoShortcut(state, C8_G)
        /\ ~ENABLED handleGarmentClick(C8_G)

\* C8 witness: the scenario happened.
C8_Witness == C8_Scenario /\ displayImageUrl(state) = displayImageUrl(history[2])

\* finalize, apply g1, undo
C9_Scenario ==
    /\ last.op = "undo"
    /\ Len(history) = 2
    /\ currentIndex = 0
    /\ \E url \in ModelImages : history[1] = FinalizedState(url)
    /\ \E g1 \in defaultWardrobe, x \in GatewayImages :
          history[2] = TryOnUpdate(history[1], g1, history[1].currentPose, x)

\* C9: after finalize, apply g1 and undo, the model image is shown, the active
\* layer is layer 0, the layer of g1 is still at index 1, and applying g1
\* again takes the redo shortcut (no second Gateway call).
C9_UndoKeepsStash ==
    C9_Scenario =>
        /\ displayImageUrl(state) = state.modelImageUrl
        /\ state.currentOutfitIndex = 0
        /\ Len(state.outfitHistory) >= 2
        /\ IsRedoShortcut(state, history[2].outfitHistory[2].garment)

\* C10: handlePoseSelect(newPose) with an image for newPose in the active layer
\* starts no Gateway call and changes only currentPose; with newPose equal to
\* currentPose, or with no layers, it does nothing.
C10_PoseCacheReuse ==
    [][\A newPose \in Poses :
          /\ (handlePoseSelect(newPose)
                /\ HasPose(LayerAt(state, state.currentOutfitIndex).poseImages, newPose))
                => /\ pending' = pending
                   /\ isLoading' = isLoading
                   /\ state' = [state EXCEPT !.currentPose = newPose]
          /\ (newPose = state.currentPose \/ Len(state.outfitHistory) = 0)
                => ~ENABLED handlePoseSelect(newPose)]_vars

\* C10 witness: a cached pose was selected.
C10_Witness ==
    /\ last.op = "handlePoseSelect"
    /\ state.currentPose = last.arg
    /\ state = [last.prevHead EXCEPT !.currentPose = last.arg]
    /\ state # last.prevHead

\* C11: when the Gateway call of a repattern resolves, the pose images of the
\* active layer are exactly one entry: the pose that was current when
\* handleRepattern was called, with the image the Gateway returned.
C11_RepatternNarrows ==
    [][\A i \in 1..Len(pending), img \in lim.images :
          (gatewayResolved(i, img) /\ pending[i].kind = "repattern")
              => LayerAt(state', state'.currentOutfitIndex).poseImages
                    = <<[pose |-> StateOf(pending[i].cl).currentPose, img |-> img]>>]_vars

\* C12: when the Gateway call of handleGarmentSelect (its enhance step
\* included), handlePoseSelect, handleBackgroundChange (and the event stylist)
\* or handleRepattern fails, the failure changes neither the snapshots nor the
\* cursor, an error message is shown and the busy flag these handlers set,
\* isLoading, is cleared; isBusy is false then unless the stylist or a
\* photoshoot, which have flags of their own, is still at work.
C12_FailureLeavesSnapshot ==
    [][\A i \in 1..Len(pending) :
          gatewayRejected(i) =>
              /\ history' = history
              /\ currentIndex' = currentIndex
              /\ state' = state
              /\ error'
              /\ ~isLoading'
              /\ (\A j \in 1..Len(pending') : pending'[j].kind \notin AssistantKinds)
                    => ~isBusy']_vars

\* C12 witness: the enhance step of an upload failed after an earlier success.
C12_Witness ==
    /\ last.op = "rejected"
    /\ last.arg = "enhance"
    /\ state = last.prevHead
    /\ canUndo
    /\ error
    /\ ~isBusy

\* the displayed image as the data model defines it
DisplayedImage(st) ==
    IF st.outfitHistory = <<>> THEN st.modelImageUrl
    ELSE LET L == st.outfitHistory[st.currentOutfitIndex + 1]
             present == {k \in 1..Len(L.poseImages) : L.poseImages[k].pose = st.currentPose}
         IN IF present # {}
            THEN L.poseImages[CHOOSE k \in present : TRUE].img
            ELSE L.poseImages[1].img

\* C13: displayImageUrl of a snapshot is modelImageUrl when there are no
\* layers; else the image of the active layer for currentPose when the layer
\* has one, else the image at the layer's first-inserted key.  Evaluating it
\* leaves the snapshot as it was.
C13_DisplayedImage ==
    last.op = "displayImageUrl" =>
        /\ last.arg = DisplayedImage(last.prevHead)
        /\ history = <<last.prevHead>>
        /\ currentIndex = 0

\* C13 witness: the active layer has two images, none of them for currentPose,
\* and the first-inserted one is shown.
C13_Witness ==
    /\ last.op = "displayImageUrl"
    /\ Len(state.outfitHistory) = 2
    /\ state.currentOutfitIndex = 1
    /\ Len(state.outfitHistory[2].poseImages) = 2
    /\ ~HasPose(state.outfitHistory[2].poseImages, state.currentPose)
    /\ state.outfitHistory[2].poseImages[1].img # state.outfitHistory[2].poseImages[2].img
    /\ last.arg = state.outfitHistory[2].poseImages[1].img

\* C14: while the displayed image is the thumbnail of a look of the archive,
\* handleSaveLook changes nothing, in memory or in localStorage; the looks of
\* the archive have pairwise different thumbnails, and what is stored is the
\* archive in memory.
C14_SaveDedup ==
    /\ isLookSaved => ~ENABLED handleSaveLook
    /\ \A i, j \in 1..Len(savedLooks) :
          savedLooks[i].thumbnailUrl = savedLooks[j].thumbnailUrl => i = j
    /\ storedLooks.kind = "jsonOfList" /\ app = "running"
          => storedLooks = Stringify(savedLooks)

\* C14 witness: the displayed image is already archived, and the archive has
\* room for another look.
C14_Witness ==
    /\ app = "running"
    /\ isLookSaved
    /\ Len(savedLooks) = 1
    /\ looksMade < lim.looks
    /\ storedLooks = Stringify(savedLooks)

\* C15: handleSaveLook archives the head; a look of the archive never changes
\* while it is there, whatever the editor does; handleLoadLook(id) makes the
\* version history the single snapshot archived under id.
C15_LookIndependent ==
    [][/\ handleSaveLook =>
             /\ Len(savedLooks') = Len(savedLooks) + 1
             /\ savedLooks'[Len(savedLooks')].editorState = state
       /\ \A i \in 1..Len(savedLooks), j \in 1..Len(savedLooks') :
             savedLooks'[j].id = savedLooks[i].id => savedLooks'[j] = savedLooks[i]
       /\ \A i \in 1..Len(savedLooks) :
             handleLoadLook(savedLooks[i].id) =>
                 /\ history' = <<savedLooks[i].editorState>>
                 /\ currentIndex' = 0
                 /\ savedLooks' = savedLooks]_vars

\* C15 witness: the first of two looks was loaded over a head that differs
\* from it, and the head is the archived snapshot again.
C15_Witness ==
    /\ last.op = "handleLoadLook"
    /\ Len(savedLooks) = 2
    /\ last.arg = savedLooks[1].id
    /\ state = savedLooks[1].editorState
    /\ last.prevHead # state
    /\ history = <<state>>

\* C16: when App mounts over a stored archive that is not the JSON of a list
\* of looks, the stored data is dropped, the archive in memory is empty and
\* the application runs.
C16_CorruptArchiveDiscarded ==
    [][(loadSavedLooks /\ storedLooks.kind \in {"notJson", "jsonOfOther"})
          => /\ app' = "running"
             /\ savedLooks' = <<>>
             /\ storedLooks' = Absent]_vars

\* C17: at most one Gateway call of a busy mutation is outstanding at any
\* time, whatever the order of the user's events.
C17_OneBusyMutation == Cardinality(InFlight) <= 1

\* C18: a Gateway call that was in flight when start over ran is discarded
\* when it completes, with success or with failure: the version history stays
\* the single empty snapshot that start over installed.
C18_StartOverDiscardsResult ==
    [][\A i \in 1..Len(pending) :
          (/\ history = <<initialEditorState>>
           /\ \/ gatewayRejected(i)
              \/ \E img \in lim.images : gatewayResolved(i, img))
              => /\ history' = <<initialEditorState>>
                 /\ currentIndex' = 0]_vars

\* C19: when the Gateway call of an engine operation completes, the next
\* snapshot is computed from the head that is current then and is appended
\* after the cursor that is current then, so an undo or redo made while the
\* call was in flight is kept.
C19_AtomicHeadReplacement ==
    [][\A i \in 1..Len(pending), img \in lim.images :
          (gatewayResolved(i, img) /\ AppViewShown) =>
              LET next == UpdaterOf(pending[i], state, img)
              IN IF next = state
                 THEN UNCHANGED <<history, currentIndex>>
                 ELSE /\ history' = Append(SubSeq(history, 1, currentIndex + 1), next)
                      /\ currentIndex' = currentIndex + 1]_vars

\* C20: a garment application that is no redo shortcut and whose Gateway call
\* succeeds installs a snapshot whose layers are the old layers up to the
\* active one followed by one new layer holding the garment and the Gateway
\* image under the active pose; the active layer index grows by one, the pose
\* and the model image stay, and the displayed image is the Gateway image.
\* The old snapshot is the one the handler was called on.
C20_ApplyGarment ==
    [][\A i \in 1..Len(pending), img \in lim.images :
          (gatewayResolved(i, img) /\ pending[i].kind = "tryOn") =>
              LET old == StateOf(pending[i].cl)
                  newLayer == [garment |-> pending[i].arg,
                               poseImages |-> <<[pose |-> old.currentPose, img |-> img]>>]
              IN /\ state'.outfitHistory =
                        Append(SubSeq(old.outfitHistory, 1, old.currentOutfitIndex + 1),
                               newLayer)
                 /\ state'.currentOutfitIndex = old.currentOutfitIndex + 1
                 /\ state'.currentPose = old.currentPose
                 /\ state'.modelImageUrl = old.modelImageUrl
                 /\ displayImageUrl(state') = img]_vars

\* C20 witness: a second garment was applied on a head whose active layer
\* held a garment, with nothing else done while the call was in flight; the
\* new layer is the active, last one and its image is the one displayed.
C20_Witness ==
    /\ last.op = "tryOn"
    /\ last.basis = last.prevHead
    /\ last.prevHead.currentOutfitIndex = 1
    /\ state.outfitHistory =
          Append(last.prevHead.outfitHistory,
                 [garment |-> last.arg,
                  poseImages |-> <<[pose |-> state.currentPose, img |-> "X"]>>])
    /\ state.currentOutfitIndex = 2
    /\ displayImageUrl(state) = "X"
    /\ history[currentIndex] = last.prevHead

\* C21: when the layer after the active one of the snapshot that
\* handleGarmentSelect is called on holds the selected garment, the handler
\* makes no Gateway call and never sets the busy flag; the snapshot it installs
\* differs from that snapshot only in currentOutfitIndex, which is one higher.
C21_RedoShortcut ==
    [][\A i \in 1..Len(pending) :
          (/\ urlToFileDone(i)
           /\ IsRedoShortcut(StateOf(pending[i].cl), pending[i].arg))
              => LET old == StateOf(pending[i].cl)
                 IN /\ state' = [old EXCEPT !.currentOutfitIndex = old.currentOutfitIndex + 1]
                    /\ state'.outfitHistory = old.outfitHistory
                    /\ state'.currentPose = old.currentPose
                    /\ state'.modelImageUrl = old.modelImageUrl
                    /\ pending' = RemoveAt(pending, i)
                    /\ isLoading' = isLoading
                    /\ error' = error]_vars

\* C21 witness: the stashed garment was selected on the loaded look; the head
\* is that look with the stashed layer active and its image displayed, one
\* step after the look in the version history, and nothing is in flight.
C21_Witness ==
    /\ last.op = "handleGarmentSelect"
    /\ last.arg = StashedGarment
    /\ last.basis = StashSnapshot
    /\ last.prevHead = StashSnapshot
    /\ state = [StashSnapshot EXCEPT !.currentOutfitIndex = 1]
    /\ displayImageUrl(state) = "X"
    /\ history = <<StashSnapshot, state>>
    /\ pending = <<>>
    /\ ~isBusy

\* C22: a pose selection whose Gateway call succeeds adds exactly the entry
\* newPose -> Gateway image to the pose map of the active layer of the snapshot
\* it was called on and makes newPose the current pose; the other entries of
\* that layer, the other layers, their number, currentOutfitIndex and the
\* model image stay, and the displayed image is the Gateway image.
C22_PoseAddsOneEntry ==
    [][\A i \in 1..Len(pending), img \in lim.images :
          (gatewayResolved(i, img) /\ pending[i].kind = "pose") =>
              LET old == StateOf(pending[i].cl)
                  k == old.currentOutfitIndex + 1
                  newPose == pending[i].arg
              IN /\ ~HasPose(old.outfitHistory[k].poseImages, newPose)
                 /\ Len(state'.outfitHistory) = Len(old.outfitHistory)
                 /\ \A j \in 1..Len(old.outfitHistory) :
                       j # k => state'.outfitHistory[j] = old.outfitHistory[j]
                 /\ state'.outfitHistory[k].garment = old.outfitHistory[k].garment
                 /\ state'.outfitHistory[k].poseImages =
                       Append(old.outfitHistory[k].poseImages,
                              [pose |-> newPose, img |-> img])
                 /\ state'.currentOutfitIndex = old.currentOutfitIndex
                 /\ state'.modelImageUrl = old.modelImageUrl
                 /\ state'.currentPose = newPose
                 /\ displayImageUrl(state') = img]_vars

\* C22 witness: on a garment layer holding X under "front", the pose "side"
\* was selected and the Gateway returned Y: the layer has both entries, the
\* base layer is as before, "side" is current and Y is displayed.
C22_Witness ==
    /\ last.op = "pose"
    /\ last.arg = "side"
    /\ last.basis = last.prevHead
    /\ state.currentOutfitIndex = 1
    /\ Len(state.outfitHistory) = 2
    /\ state.outfitHistory[1] = last.prevHead.outfitHistory[1]
    /\ state.outfitHistory[2].poseImages =
          <<[pose |-> "front", img |-> "X"], [pose |-> "side", img |-> "Y"]>>
    /\ state.currentPose = "side"
    /\ displayImageUrl(state) = "Y"

\* C23: a background change whose Gateway call succeeds leaves a head that is
\* the snapshot it was called on with only the image under currentPose of the
\* active layer replaced by the Gateway image: the number of layers, the pose
\* keys of every layer, currentOutfitIndex, currentPose and every other image
\* are those of that snapshot.
C23_BackgroundReplacesOneImage ==
    [][\A i \in 1..Len(pending), img \in lim.images :
          (gatewayResolved(i, img) /\ pending[i].kind = "background") =>
              LET old == StateOf(pending[i].cl)
                  k == old.currentOutfitIndex + 1
              IN /\ Len(state'.outfitHistory) = Len(old.outfitHistory)
                 /\ \A j \in 1..Len(old.outfitHistory) :
                       /\ PoseKeys(state'.outfitHistory[j].poseImages)
                             = PoseKeys(old.outfitHistory[j].poseImages)
                       /\ state'.outfitHistory[j].garment = old.outfitHistory[j].garment
                       /\ \A n \in 1..Len(old.outfitHistory[j].poseImages) :
                             (j # k \/ old.outfitHistory[j].poseImages[n].pose # old.currentPose)
                                 => state'.outfitHistory[j].poseImages[n]
                                       = old.outfitHistory[j].poseImages[n]
                 /\ PoseGet(state'.outfitHistory[k].poseImages, old.currentPose) = img
                 /\ state'.currentOutfitIndex = old.currentOutfitIndex
                 /\ state'.currentPose = old.currentPose
                 /\ state'.modelImageUrl = old.modelImageUrl]_vars

\* C24: handleRemoveLayer(k) with 0 < k <= currentOutfitIndex leaves the
\* layers before k (layer k and every later one are gone) with layer k - 1
\* active; currentPose stays when layer k - 1 has an image for it and is the
\* first pose key of layer k - 1 otherwise; no Gateway call is made.
C24_RemoveLayer ==
    [][\A k \in 1..MaxLayers :
          (handleRemoveLayer(k) /\ k <= state.currentOutfitIndex) =>
              LET newActive == state.outfitHistory[k]
              IN /\ state'.outfitHistory = SubSeq(state.outfitHistory, 1, k)
                 /\ state'.currentOutfitIndex = k - 1
                 /\ state'.currentPose =
                       IF HasPose(newActive.poseImages, state.currentPose)
                       THEN state.currentPose
                       ELSE newActive.poseImages[1].pose
                 /\ state'.modelImageUrl = state.modelImageUrl
                 /\ pending' = pending
                 /\ isLoading' = isLoading]_vars

\* C24 witness: the garment layer, shown in the pose "side", was removed; the
\* base layer has no image for "side", so its first pose key is current.
C24_Witness ==
    /\ last.op = "handleRemoveLayer"
    /\ last.arg = 1
    /\ last.prevHead.currentOutfitIndex = 1
    /\ last.prevHead.currentPose = "side"
    /\ state.outfitHistory = SubSeq(last.prevHead.outfitHistory, 1, 1)
    /\ PoseKeys(state.outfitHistory[1].poseImages) = {"front"}
    /\ state.currentOutfitIndex = 0
    /\ state.currentPose = "front"

\* C25: a repattern whose Gateway call succeeds, with nothing else done while
\* the call was in flight and the chosen layer among the layers the head
\* shows, replaces the pose map of the layer the user chose
\* (repatternTarget.layerIndex), active or not, by the single entry
\* currentPose -> Gateway image and leaves every other layer as it was.
C25_RepatternTargetLayer ==
    [][\A i \in 1..Len(pending), img \in lim.images :
          (/\ gatewayResolved(i, img)
           /\ pending[i].kind = "repattern"
           /\ pending[i].cl.history = history
           /\ pending[i].cl.currentIndex = currentIndex
           /\ pending[i].layerIndex \in RepatternButtons(state)) =>
              LET target == pending[i].layerIndex + 1
              IN /\ Len(state'.outfitHistory) = Len(state.outfitHistory)
                 /\ state'.outfitHistory[target].poseImages =
                       <<[pose |-> state.currentPose, img |-> img]>>
                 /\ \A j \in 1..Len(state.outfitHistory) :
                       j # target => state'.outfitHistory[j] = state.outfitHistory[j]]_vars

\* C26: when every Gateway call returns, a busy flag that is set is cleared
\* again, after a success as after a failure: whenever isBusy holds, a state
\* follows in which it does not, and a new request passes the guard.
C26_BusyFlagCleared == isBusy ~> ~isBusy

\* C26 witness: the style blender succeeded, its timer ran, and no flag is set.
C26_Witness ==
    /\ last.op = "blendTimer"
    /\ pending = <<>>
    /\ ~isBusy
    /\ ENABLED handleStyleBlend

\* every snapshot the program holds: the version history, the saved looks and
\* the version histories in the closures of the suspended handlers
Snapshots ==
    {history[k] : k \in 1..Len(history)}
        \cup {savedLooks[k].editorState : k \in 1..Len(savedLooks)}
        \cup UNION {{t.cl.history[k] : k \in 1..Len(t.cl.history)} : t \in Tasks}

\* C27: in every snapshot, outfitHistory is empty exactly when modelImageUrl
\* is null.
C27_LayersIffModel ==
    \A st \in Snapshots : (Len(st.outfitHistory) = 0) <=> (st.modelImageUrl = Null)

\* C27 witness: the only garment layer was removed: the head has the model
\* image and its base layer, and the empty snapshot is reachable by no undo.
C27_Witness ==
    /\ last.op = "handleRemoveLayer"
    /\ state.modelImageUrl = "M"
    /\ Len(state.outfitHistory) = 1
    /\ Len(last.prevHead.outfitHistory) = 2
    /\ \A k \in 1..Len(history) : history[k] # initialEditorState

\* C28: in every snapshot with layers the active layer is the last one, and
\* the redo shortcut of handleGarmentSelect is never taken: no selection
\* reaches it on a snapshot whose next layer holds the selected garment.
C28_ActiveLayerIsLast ==
    /\ \A st \in Snapshots :
          Len(st.outfitHistory) > 0 => st.currentOutfitIndex = Len(st.outfitHistory) - 1
    /\ \A t \in Tasks : t.kind = "urlToFile" => ~IsRedoShortcut(StateOf(t.cl), t.arg)
    /\ last.op # "handleGarmentSelect"

\* C28 witness: a garment was applied and undone, and the same garment was
\* selected again on the head without it: the selection found no layer after
\* the active one and went to the Gateway, although redo would bring the
\* garment back.
C28_Witness ==
    /\ canRedo
    /\ \E t \in Tasks :
          /\ t.kind = "tryOn"
          /\ t.cl.history = history
          /\ t.cl.currentIndex = currentIndex
          /\ LayerAt(history[currentIndex + 2],
                     history[currentIndex + 2].currentOutfitIndex).garment = t.arg
          /\ t.arg \notin activeGarmentIds(state)

\* C29: in every snapshot with layers, currentPose is a pose key of the active
\* layer, so the displayed image is the image stored under currentPose.
C29_ActivePoseIsKey ==
    \A st \in Snapshots :
        Len(st.outfitHistory) > 0 =>
            /\ LayerAt(st, st.currentOutfitIndex) # NoLayer
            /\ HasPose(LayerAt(st, st.currentOutfitIndex).poseImages, st.currentPose)
            /\ displayImageUrl(st) =
                  PoseGet(LayerAt(st, st.currentOutfitIndex).poseImages, st.currentPose)

\* C29 witness: a layer shown in "side" with images for both poses was
\* repatterned: its only image is the one under "side", which is displayed.
C29_Witness ==
    /\ last.op = "repattern"
    /\ last.basis = last.prevHead
    /\ state.currentPose = "side"
    /\ Len(LayerAt(last.prevHead, last.prevHead.currentOutfitIndex).poseImages) = 2
    /\ PoseKeys(LayerAt(state, state.currentOutfitIndex).poseImages) = {"side"}
    /\ displayImageUrl(state) \in GatewayImages

\* the garments of the active outfit, one per garment layer
ActiveGarments(st) ==
    LET layers == activeOutfitLayers(st)
    IN [k \in {j \in 1..Len(layers) : layers[j].garment # Null} |-> layers[k].garment]

\* C30: in every snapshot, no garment occurs in two layers of the active
\* outfit outfitHistory[0..currentOutfitIndex].
C30_GarmentOncePerOutfit ==
    \A st \in Snapshots :
        \A j, k \in DOMAIN ActiveGarments(st) :
            ActiveGarments(st)[j] = ActiveGarments(st)[k] => j = k

\* C30 witness: the same wardrobe item was clicked twice before its first
\* conversion finished; both Gateway calls returned, the second on a head that
\* already wore the garment, and the head wears it once.
C30_Witness ==
    /\ last.op = "tryOn"
    /\ last.arg \in activeGarmentIds(last.prevHead)
    /\ last.basis # last.prevHead
    /\ activeGarmentIds(state) = {last.arg}
    /\ Len(state.outfitHistory) = 2
    /\ pending = <<>>

=============================================================================
